---- MODULE Spec2Model ----
(***************************************************************************)
(* Model of the Lepen AI relay (src/optional.py): a Flask application that *)
(* forwards chat, image, web-search and map-search requests to the Gemini  *)
(* API.  One action per route handler; the chat route's streaming          *)
(* generator is modelled step by step (post, answer, one step per upstream *)
(* line, end of stream), and a handler that calls the upstream blocks in   *)
(* requests.post: it takes one step up to the call and one step from the   *)
(* answer on.  The server is threaded, so while a request waits for the    *)
(* upstream the clock advances and other worker threads serve requests,    *)
(* which shows in the one datum the threads share, last_request_time.      *)
(* warm_up reads the clock and stores the value without a lock: the read   *)
(* and the store are two steps, and so is every later read of the clock    *)
(* or of last_request_time.                                                *)
(*                                                                         *)
(* Representation of values.                                               *)
(*  - A JSON field that may be missing, null, a string or a number is a    *)
(*    tagged record: [t |-> "absent"], [t |-> "null"], [t |-> "str", s |-> *)
(*    ...], [t |-> "num", n |-> ...].                                      *)
(*  - A string the code inspects character by character (a data URI) is a  *)
(*    sequence of one-character strings.  A string the code only copies    *)
(*    or concatenates is a TLA+ string.                                    *)
(*  - An optional member of an upstream JSON object is a sequence of       *)
(*    length 0 (missing) or 1 (present).                                   *)
(***************************************************************************)
EXTENDS Integers, Sequences, FiniteSets, TLC

VARIABLES
    GOOGLE_API_KEY,     \* the credential read at import, "" when not set
    now,                \* the clock time.time() reads
    last_request_time,  \* the module-level liveness timestamp
    sampled,            \* the value time.time() returned to the request's
                        \* thread and that it has not used yet, if any
    req,                \* the request being (or last) handled
    resp,               \* the response returned by the handler
    sent,               \* upstream HTTP calls issued for the current request
    upstream,           \* the upstream response of the current request, if any
    pc,                 \* position of the request's handler or generator
    lines,              \* upstream lines the chat generator has not consumed
    out                 \* events the chat generator has yielded

vars == <<GOOGLE_API_KEY, now, last_request_time, sampled, req, resp, sent,
          upstream, pc, lines, out>>

(***************************************************************************)
(* Bounds of the model.                                                    *)
(***************************************************************************)
MaxTime == 1          \* the clock runs from 0 to MaxTime
MaxMimeLen == 1       \* longest <mime> of a generated image string
MaxPayloadLen == 2    \* longest <payload> of a generated image string
MaxMsgs == 2          \* most messages of a chat request
MaxLines == 2         \* most lines of an upstream event stream
MaxTextLen == 4       \* most tokens of an upstream map-search answer

(***************************************************************************)
(* Tagged JSON scalars and Python truthiness.                              *)
(***************************************************************************)
Absent == [t |-> "absent"]
Null == [t |-> "null"]
Str(s) == [t |-> "str", s |-> s]    \* a str held as a sequence of characters
Txt(s) == [t |-> "txt", s |-> s]    \* a str held as a TLA+ string
Num(n) == [t |-> "num", n |-> n]

\* dict.get(key) / dict.get(key, default): a missing key yields the default,
\* a key holding null yields None.
Get(v, default) == IF v.t = "absent" THEN default ELSE v

\* bool(v) for None, str and int.
Truthy(v) ==
    CASE v.t = "str" -> Len(v.s) > 0
      [] v.t = "txt" -> v.s # ""
      [] v.t = "num" -> v.n # 0
      [] OTHER -> FALSE

Some(x) == <<x>>
None == <<>>

(***************************************************************************)
(* Sequences of characters.                                                *)
(***************************************************************************)
RECURSIVE SeqsOfLen(_, _)
SeqsOfLen(S, n) ==
    IF n = 0 THEN {<<>>} ELSE {Append(s, x) : s \in SeqsOfLen(S, n - 1), x \in S}

SeqsUpTo(S, n) == UNION {SeqsOfLen(S, k) : k \in 0..n}

StartsWith(s, p) == Len(s) >= Len(p) /\ SubSeq(s, 1, Len(p)) = p

DataPrefix == <<"d", "a", "t", "a", ":">>
Base64Sep == <<";", "b", "a", "s", "e", "6", "4", ",">>

(***************************************************************************)
(* re.match(r'^data:([^;]+);base64,(.+)$', s): None, or the two groups.    *)
(* [^;]+ is a non-empty run without ';' (it may hold a line feed); .+ is a *)
(* non-empty run without a line feed; $ matches at the end of the string   *)
(* and also just before a line feed that ends the string.                  *)
(***************************************************************************)
ReMatch(s) ==
    LET n == Len(s)
        \* <<i, k>>: group 1 is s[6..i], group 2 is s[i+9..k]
        ms == {m \in (6..n) \X (1..n) :
                  LET i == m[1]
                      k == m[2]
                  IN  /\ StartsWith(s, DataPrefix)
                      /\ \A j \in 6..i : s[j] # ";"
                      /\ StartsWith(SubSeq(s, i + 1, n), Base64Sep)
                      /\ k >= i + Len(Base64Sep) + 1
                      /\ \A j \in (i + Len(Base64Sep) + 1)..k : s[j] # "\n"
                      /\ \/ k = n
                         \/ k = n - 1 /\ s[n] = "\n"}
    IN  IF ms = {} THEN None
        ELSE LET m == CHOOSE x \in ms : \A y \in ms :
                            y[1] < x[1] \/ (y[1] = x[1] /\ y[2] <= x[2])
             IN  Some([g1 |-> SubSeq(s, 6, m[1]),
                       g2 |-> SubSeq(s, m[1] + Len(Base64Sep) + 1, m[2])])

(***************************************************************************)
(* The image strings a request may carry: every concatenation of a scheme, *)
(* a <mime>, a separator and a <payload> drawn from small alphabets, so    *)
(* that well-formed data URIs, URIs with a line feed or a ';' in the wrong *)
(* place, truncated URIs and plain URLs all occur.                         *)
(***************************************************************************)
Schemes == {DataPrefix, <<"d", "a", "t", ":">>, <<"h", ":">>}
Separators == {Base64Sep, <<";", "b", "a", "s", "e", "6", "4">>}
MimeChars == {"m", ";"}
PayloadChars == {"A", "\n"}

ImageStrings ==
    {p \o m \o b \o d : p \in Schemes, m \in SeqsUpTo(MimeChars, MaxMimeLen),
                        b \in Separators, d \in SeqsUpTo(PayloadChars, MaxPayloadLen)}

\* The values of an imageData field: missing, null, a string, a number.
ImageValues == {Absent, Null, Num(7)} \cup {Str(s) : s \in ImageStrings}

(***************************************************************************)
(* Lines 108-116 / 195-204: the inline image block built from an image     *)
(* value that is truthy.  "raise" when the value has no startswith (it is  *)
(* not a string), else the parts to append: none, or one inlineData block. *)
(***************************************************************************)
InlineBlock(img) ==
    IF ~Truthy(img) THEN [raise |-> FALSE, parts |-> <<>>]
    ELSE IF img.t # "str" THEN [raise |-> TRUE, parts |-> <<>>]
    ELSE IF ~StartsWith(img.s, DataPrefix) THEN [raise |-> FALSE, parts |-> <<>>]
    ELSE LET match == ReMatch(img.s)
         IN  IF match = None THEN [raise |-> FALSE, parts |-> <<>>]
             ELSE [raise |-> FALSE,
                   parts |-> <<[inlineData |-> [mimeType |-> match[1].g1,
                                                data |-> match[1].g2]]>>]

(***************************************************************************)
(* What a handler does up to its return or its upstream call, as a value:  *)
(* whether warm_up ran, whether it returned (done), the response, and the  *)
(* upstream calls issued.                                                  *)
(***************************************************************************)
Returned(status, body) == [status |-> status, body |-> body]

\* the handler returns without calling the upstream
Reply(warm, status, body) ==
    [warm |-> warm, done |-> TRUE, resp |-> Returned(status, body), sent |-> <<>>]

\* the handler has entered requests.post and waits for the answer
Posted(calls) ==
    [warm |-> TRUE, done |-> FALSE, resp |-> [status |-> 0], sent |-> calls]

\* the handler has called warm_up and has not returned
Entered == Posted(<<>>)

\* return jsonify({'error': str(e)}), 500 of a handler's except clause
Raised(e) == [error |-> e]

\* Lines 78-79, 184-185, 264-265, 309-310: request.json raises on a body that
\* is not JSON; data.get raises on a JSON body that is not an object.
BodyError(data) == IF data.kind = "invalid" THEN "BadRequest" ELSE "AttributeError"

\* Line 40: last_request_time = time.time(), t being what time.time() returned
warm_up_stale(old, t) == old
warm_up(old, t) == t

\* Lines 74, 180, 260, 305: not GOOGLE_API_KEY
NotConfigured_IsNone(key) == FALSE
NotConfigured(key) == key = ""

\* requests.post(url, json=payload): one HTTP call
UpstreamPost_Retry(calls, payload) == Append(Append(calls, payload), payload)
UpstreamPost(calls, payload) == Append(calls, payload)

Methods == {"POST", "OPTIONS"}

(***************************************************************************)
(* Upstream (buffered) responses.  net: requests.post returned; ok:        *)
(* response.ok; json: response.json() parses; result: the parsed body.     *)
(***************************************************************************)
Part(text, inlineData) == [text |-> text, inlineData |-> inlineData]
Candidate(content) == [content |-> content]
Content(parts) == Some([parts |-> parts])
Result(candidates) == [candidates |-> candidates]
Up(net, ok, json, result) == [net |-> net, ok |-> ok, json |-> json, result |-> result]

NetError == Up(FALSE, FALSE, FALSE, Result(None))
HttpError == Up(TRUE, FALSE, FALSE, Result(None))
NotJson == Up(TRUE, TRUE, FALSE, Result(None))
Answer(candidates) == Up(TRUE, TRUE, TRUE, Result(candidates))

Failures ==
    {NetError, HttpError, NotJson, Answer(None), Answer(Some(<<>>)),
     Answer(Some(<<Candidate(None)>>))}

(***************************************************************************)
(* POST /api/generate-image, lines 172-250.                                *)
(***************************************************************************)
Prompts == {Absent, Null, Txt(""), Txt("a red circle")}

ImageBodies ==
    {[kind |-> "array"], [kind |-> "invalid"]} \cup
    {[kind |-> "object", prompt |-> p, imageData |-> i] :
        p \in Prompts, i \in ImageValues}

PngPart == Part(None, Some([mimeType |-> "image/png", data |-> "iVBOR"]))
ImageUpstreams ==
    Failures \cup
    {Answer(Some(<<Candidate(Content(ps))>>)) :
        ps \in {<<>>, <<PngPart>>, <<Part(Some("caption"), None)>>,
                <<PngPart, Part(Some("caption"), None)>>}}

\* Lines 191-208: the parts of the upstream request.
ImageParts_NeverEdit(prompt, image_data) ==
    LET blk == InlineBlock(image_data)
        matched == blk.parts # <<>>
        edit == IF matched
                THEN blk.parts \o <<[text |-> "Edit this image: " \o prompt.s]>>
                ELSE <<>>
    IN  [is_edit |-> FALSE,
         parts |-> edit \o <<[text |-> "Generate an image: " \o prompt.s]>>]

ImageParts(prompt, image_data) ==
    LET blk == InlineBlock(image_data)
        matched == blk.parts # <<>>
        edit == IF matched
                THEN blk.parts \o <<[text |-> "Edit this image: " \o prompt.s]>>
                ELSE <<>>
        is_edit == matched
    IN  [is_edit |-> is_edit,
         parts |-> IF ~is_edit
                   THEN edit \o <<[text |-> "Generate an image: " \o prompt.s]>>
                   ELSE edit]

\* Lines 233-239: the last inline image and the last text of the parts.
RECURSIVE ScanParts(_, _)
ScanParts(parts, acc) ==
    IF parts = <<>> THEN acc
    ELSE LET part == Head(parts)
             acc2 == IF part.inlineData # None
                     THEN [acc EXCEPT !.imageUrl =
                              Some("data:" \o part.inlineData[1].mimeType
                                   \o ";base64," \o part.inlineData[1].data)]
                     ELSE IF part.text # None
                     THEN [acc EXCEPT !.text = part.text[1]]
                     ELSE acc
         IN  ScanParts(Tail(parts), acc2)

\* Lines 188-189: not prompt
PromptMissing_OnlyNone(prompt) == prompt.t = "null"
PromptMissing(prompt) == ~Truthy(prompt)

\* Lines 175-219: the handler up to its call of requests.post.
generate_image_call(key, method, data) ==
    IF method = "OPTIONS" THEN Reply(FALSE, 204, [text |-> ""])
    ELSE IF NotConfigured(key)
    THEN Reply(TRUE, 500, [error |-> "GOOGLE_API_KEY not configured"])
    ELSE IF data.kind # "object" THEN Reply(TRUE, 500, Raised(BodyError(data)))
    ELSE
    LET prompt == Get(data.prompt, Txt(""))
        image_data == Get(data.imageData, Null)
    IN  IF PromptMissing(prompt)
        THEN Reply(TRUE, 400, [error |-> "Prompt is required"])
        ELSE IF InlineBlock(image_data).raise
        THEN Reply(TRUE, 500, Raised("AttributeError"))
        ELSE
        LET built == ImageParts(prompt, image_data)
            payload == [model |-> "gemini-2.0-flash-exp-image-generation",
                        contents |-> <<[parts |-> built.parts]>>]
        IN  Posted(UpstreamPost(<<>>, payload))

\* Lines 219-250: the handler from the answer of requests.post on.
generate_image_reply(data, up) ==
    LET is_edit == ImageParts(Get(data.prompt, Txt("")),
                              Get(data.imageData, Null)).is_edit
    IN  IF ~up.net THEN Returned(500, Raised("ConnectionError"))
        ELSE IF ~up.ok THEN Returned(500, [error |-> "Image generation failed"])
        ELSE IF ~up.json THEN Returned(500, Raised("JSONDecodeError"))
        ELSE IF up.result.candidates # None /\ Len(up.result.candidates[1]) > 0
        THEN LET c == up.result.candidates[1][1]
             IN  IF c.content = None THEN Returned(500, Raised("KeyError"))
                 ELSE Returned(200,
                          ScanParts(c.content[1].parts,
                              [imageUrl |-> None,
                               text |-> IF is_edit
                                        THEN "Here's your edited image!"
                                        ELSE "Here's your generated image!"]))
        ELSE Returned(500, [error |-> "No image generated"])

(***************************************************************************)
(* POST /api/web-search, lines 252-295.                                    *)
(***************************************************************************)
QueryBodies ==
    {[kind |-> "array"], [kind |-> "invalid"]} \cup
    {[kind |-> "object", query |-> q] : q \in {Absent, Txt("paris")}}

WebUpstreams ==
    Failures \cup
    {Answer(Some(<<Candidate(Content(ps))>>)) :
        ps \in {<<>>, <<PngPart>>, <<Part(Some("Paris is ..."), None)>>}}

\* Lines 255-280: the handler up to its call of requests.post.
web_search_call(key, method, data) ==
    IF method = "OPTIONS" THEN Reply(FALSE, 204, [text |-> ""])
    ELSE IF NotConfigured(key)
    THEN Reply(TRUE, 500, [error |-> "GOOGLE_API_KEY not configured"])
    ELSE IF data.kind # "object" THEN Reply(TRUE, 500, Raised(BodyError(data)))
    ELSE
    LET query == Get(data.query, Txt(""))
        payload == [model |-> "gemini-2.0-flash",
                    contents |-> <<[parts |-> <<[text |->
                        "Search and provide detailed information about: "
                        \o query.s]>>]>>]
    IN  Posted(UpstreamPost(<<>>, payload))

\* Lines 280-295: the handler from the answer of requests.post on.
web_search_reply(up) ==
    IF ~up.net THEN Returned(500, Raised("ConnectionError"))
    ELSE IF ~up.ok THEN Returned(500, [error |-> "Search failed"])
    ELSE IF ~up.json THEN Returned(500, Raised("JSONDecodeError"))
    ELSE IF up.result.candidates # None /\ Len(up.result.candidates[1]) > 0
    THEN LET c == up.result.candidates[1][1]
         IN  IF c.content = None THEN Returned(500, Raised("KeyError"))
             ELSE IF c.content[1].parts = <<>>
             THEN Returned(500, Raised("IndexError"))
             ELSE IF c.content[1].parts[1].text = None
             THEN Returned(500, Raised("KeyError"))
             ELSE LET content == c.content[1].parts[1].text[1]
                  IN  Returned(200, [content |-> content, results |-> content])
    ELSE Returned(500, [error |-> "No search results"])

(***************************************************************************)
(* POST /api/map-search, lines 297-364.  The candidate text is a sequence  *)
(* of tokens: a fence of three backticks, the word json, a line feed, a    *)
(* JSON object, a JSON array, other text.  No token other than the fence   *)
(* holds a backtick and no two tokens join into a JSON document, so        *)
(* splitting and parsing the tokens is splitting and parsing the string.   *)
(***************************************************************************)
\* stands for the three backticks of a fenced block
Fence == "<fence>"
ObjToken == "{\"message\":\"Paris\",\"zoom\":12}"
ArrToken == "[1]"
MapTokens == {Fence, "json", "\n", ObjToken, ArrToken, "x"}
MapTexts == SeqsUpTo(MapTokens, MaxTextLen)

\* sub in s
Contains(s, sub) ==
    \E i \in 1..(Len(s) - Len(sub) + 1) : SubSeq(s, i, i + Len(sub) - 1) = sub

\* s.split(sep): the pieces between the occurrences of sep, left to right
RECURSIVE Split(_, _)
Split(s, sep) ==
    IF ~Contains(s, sep) THEN <<s>>
    ELSE LET i == CHOOSE j \in 1..(Len(s) - Len(sep) + 1) :
                      /\ SubSeq(s, j, j + Len(sep) - 1) = sep
                      /\ \A h \in 1..(j - 1) : SubSeq(s, h, h + Len(sep) - 1) # sep
         IN  <<SubSeq(s, 1, i - 1)>> \o Split(SubSeq(s, i + Len(sep), Len(s)), sep)

\* s.strip(): the line feeds at both ends removed
RECURSIVE Strip(_)
Strip(s) ==
    IF s # <<>> /\ Head(s) = "\n" THEN Strip(Tail(s))
    ELSE IF s # <<>> /\ s[Len(s)] = "\n" THEN Strip(SubSeq(s, 1, Len(s) - 1))
    ELSE s

\* json.loads(s): None when s is no JSON document, else the value
JsonLoads(s) ==
    IF s = <<ObjToken>>
    THEN Some([type |-> "dict", message |-> Some("Paris"), zoom |-> Some(12)])
    ELSE IF s = <<ArrToken>>
    THEN Some([type |-> "list", message |-> None, zoom |-> None])
    ELSE None

\* Lines 350-353: the text between the fences
Unfence(content) ==
    IF Contains(content, <<Fence, "json">>)
    THEN Split(Split(content, <<Fence, "json">>)[2], <<Fence>>)[1]
    ELSE IF Contains(content, <<Fence>>)
    THEN Split(Split(content, <<Fence>>)[2], <<Fence>>)[1]
    ELSE content

\* Lines 349-358: the body of the response for a candidate text
MapAnswer(text) ==
    LET content == Unfence(text)
        map_data == JsonLoads(Strip(content))
    IN  IF map_data = None THEN [content |-> content]
        ELSE IF map_data[1].type # "dict" THEN [content |-> content]
        ELSE [mapData |-> map_data[1],
              content |-> IF map_data[1].message = None THEN Txt("")
                          ELSE Txt(map_data[1].message[1])]

MapUpstreams ==
    Failures \cup
    {Answer(Some(<<Candidate(Content(ps))>>)) : ps \in {<<>>, <<PngPart>>}} \cup
    {Answer(Some(<<Candidate(Content(<<Part(Some(t), None)>>))>>)) : t \in MapTexts}

\* Lines 300-339: the handler up to its call of requests.post.
map_search_call(key, method, data) ==
    IF method = "OPTIONS" THEN Reply(FALSE, 204, [text |-> ""])
    ELSE IF NotConfigured(key)
    THEN Reply(TRUE, 500, [error |-> "GOOGLE_API_KEY not configured"])
    ELSE IF data.kind # "object" THEN Reply(TRUE, 500, Raised(BodyError(data)))
    ELSE
    LET query == Get(data.query, Txt(""))
        payload == [model |-> "gemini-2.0-flash",
                    contents |-> <<[parts |-> <<[text |->
                        "Find location information for: " \o query.s]>>]>>]
    IN  Posted(UpstreamPost(<<>>, payload))

\* Lines 339-364: the handler from the answer of requests.post on.
map_search_reply(up) ==
    IF ~up.net THEN Returned(500, Raised("ConnectionError"))
    ELSE IF ~up.ok THEN Returned(500, [error |-> "Location search failed"])
    ELSE IF ~up.json THEN Returned(500, Raised("JSONDecodeError"))
    ELSE IF up.result.candidates # None /\ Len(up.result.candidates[1]) > 0
    THEN LET c == up.result.candidates[1][1]
         IN  IF c.content = None THEN Returned(500, Raised("KeyError"))
             ELSE IF c.content[1].parts = <<>>
             THEN Returned(500, Raised("IndexError"))
             ELSE IF c.content[1].parts[1].text = None
             THEN Returned(500, Raised("KeyError"))
             ELSE Returned(200, MapAnswer(c.content[1].parts[1].text[1]))
    ELSE Returned(500, [error |-> "No location results"])

(***************************************************************************)
(* POST /api/chat, lines 66-170: the handler up to the Response it returns. *)
(***************************************************************************)
GoodImage == Str(DataPrefix \o <<"m">> \o Base64Sep \o <<"A">>)
TopImage == Str(DataPrefix \o <<"m">> \o Base64Sep \o <<"A", "A">>)
LineFedImage == Str(DataPrefix \o <<"m">> \o Base64Sep \o <<"A", "\n">>)
PlainUrl == Str(<<"h", ":">> \o <<"m">> \o Base64Sep \o <<"A">>)

Msg(role, content, imageData) ==
    [role |-> role, content |-> content, imageData |-> imageData]

\* The messages of the translation check: every role and two texts, with
\* and without an image of their own.
Turns ==
    {<<"user", "hello">>, <<"user", "more">>, <<"assistant", "hello">>,
     <<"system", "more">>}

Messages ==
    {Msg(Txt(turn[1]), Txt(turn[2]), i) :
        turn \in Turns, i \in {Absent, GoodImage, PlainUrl}}

ChatBodies ==
    {[kind |-> "object", messages |-> Some(m), mode |-> mode, imageData |-> i] :
        m \in SeqsUpTo(Messages, MaxMsgs), mode \in {Absent, Txt("code")},
        i \in {Absent, TopImage}}

\* The requests of the relay as a whole: malformed bodies and messages, and
\* a few well-formed conversations.
SmallChatBodies ==
    {[kind |-> "array"], [kind |-> "invalid"]} \cup
    {[kind |-> "object", messages |-> m, mode |-> mode, imageData |-> i] :
        m \in {None,
               Some(<<Msg(Txt("user"), Txt("hello"), Absent)>>),
               Some(<<Msg(Txt("assistant"), Txt("hello"), Absent),
                      Msg(Txt("user"), Txt("more"), Absent)>>),
               Some(<<Msg(Txt("user"), Absent, Absent)>>),
               Some(<<Msg(Absent, Txt("hello"), Absent)>>),
               Some(<<Msg(Txt("user"), Txt("hello"), LineFedImage)>>),
               Some(<<Msg(Txt("user"), Txt("hello"), Str(<<>>)),
                      Msg(Txt("assistant"), Txt("more"), Num(7))>>),
               Some(<<Msg(Txt("user"), Absent, Num(7))>>),
               Some(<<Msg(Absent, Txt("hello"), Num(7))>>),
               Some(<<Msg(Txt("user"), Txt("hello"), Num(7)),
                      Msg(Txt("user"), Absent, Absent)>>)},
        mode \in {Absent, Txt("chat"), Txt("code")},
        i \in {Absent, TopImage, Num(7)}}

\* Line 107: msg.get('imageData') or (image_data if i == len(messages) - 1 else None)
MsgImage_EveryTurn(messages, image_data, i) ==
    LET own == Get(messages[i].imageData, Null)
    IN  IF Truthy(own) THEN own ELSE image_data

MsgImage(messages, image_data, i) ==
    LET own == Get(messages[i].imageData, Null)
    IN  IF Truthy(own) THEN own
        ELSE IF i = Len(messages) THEN image_data ELSE Null

\* Line 103
Role(msg) == IF msg.role = Txt("user") THEN "user" ELSE "model"

\* Lines 102-119: the loop from message i on, acc being gemini_contents so
\* far.  Each message reads msg['role'] (line 103), then calls startswith on
\* its image (line 108), then reads msg['content'] (line 118); the first
\* exception ends the loop.
RECURSIVE ChatLoop(_, _, _, _)
ChatLoop(messages, image_data, i, acc) ==
    IF i > Len(messages) THEN [raise |-> "", contents |-> acc]
    ELSE LET msg == messages[i]
             blk == InlineBlock(MsgImage(messages, image_data, i))
         IN  IF msg.role = Absent THEN [raise |-> "KeyError", contents |-> <<>>]
             ELSE IF blk.raise THEN [raise |-> "AttributeError", contents |-> <<>>]
             ELSE IF msg.content = Absent
             THEN [raise |-> "KeyError", contents |-> <<>>]
             ELSE ChatLoop(messages, image_data, i + 1,
                           Append(acc, [role |-> Role(msg),
                                        parts |-> blk.parts
                                                  \o <<[text |-> msg.content.s]>>]))

\* Lines 100-119: gemini_contents, or the exception the loop raises
ChatContents(messages, image_data) == ChatLoop(messages, image_data, 1, <<>>)

\* Lines 84-97
SystemPrompt(mode) ==
    IF mode = Txt("code") THEN "You are Lepen AI ... You are now in Build mode."
    ELSE "You are Lepen AI ..."

\* Lines 125-132: the payload of the streaming call
ChatPayload(data) ==
    [model |-> "gemini-2.0-flash:streamGenerateContent",
     contents |-> ChatContents(IF data.messages = None THEN <<>>
                               ELSE data.messages[1],
                               Get(data.imageData, Null)).contents,
     systemInstruction |-> SystemPrompt(Get(data.mode, Txt("chat")))]

chat_result(key, method, data) ==
    IF method = "OPTIONS" THEN Reply(FALSE, 204, [text |-> ""])
    ELSE IF NotConfigured(key)
    THEN Reply(TRUE, 500, [error |-> "GOOGLE_API_KEY not configured"])
    ELSE IF data.kind # "object" THEN Reply(TRUE, 500, Raised(BodyError(data)))
    ELSE
    LET messages == IF data.messages = None THEN <<>> ELSE data.messages[1]
        built == ChatContents(messages, Get(data.imageData, Null))
    IN  IF built.raise # "" THEN Reply(TRUE, 500, Raised(built.raise))
        ELSE Reply(TRUE, 200, [mimetype |-> "text/event-stream"])

(***************************************************************************)
(* The lines of the upstream event stream, as iter_lines yields them.      *)
(* bytes: "empty" (a blank line), "invalid" (bytes that are not UTF-8) or  *)
(* "text"; prefix: what the line starts with; json: the document after     *)
(* the prefix (valid: it parses; dict: it is a JSON object).               *)
(***************************************************************************)
ChunkPart(text) == [text |-> text]
ChunkCand(parts) == [content |-> Some([parts |-> parts])]
Chunk(valid, dict, candidates) ==
    [valid |-> valid, dict |-> dict, candidates |-> candidates]
TextChunk(t) == Chunk(TRUE, TRUE, Some(<<ChunkCand(Some(<<ChunkPart(Some(t))>>))>>))

Chunks ==
    {TextChunk("Hi"), TextChunk(" there"), TextChunk(""),
     Chunk(FALSE, FALSE, None),                 \* not JSON
     Chunk(TRUE, FALSE, None),                  \* a JSON array
     Chunk(TRUE, TRUE, None),                   \* {}
     Chunk(TRUE, TRUE, Some(<<>>)),             \* {"candidates": []}
     Chunk(TRUE, TRUE, Some(<<[content |-> None]>>)),
     Chunk(TRUE, TRUE, Some(<<ChunkCand(None)>>)),
     Chunk(TRUE, TRUE, Some(<<ChunkCand(Some(<<>>))>>)),
     Chunk(TRUE, TRUE, Some(<<ChunkCand(Some(<<ChunkPart(None)>>))>>))}

Line(bytes, prefix, json) == [bytes |-> bytes, prefix |-> prefix, json |-> json]

UpstreamLines ==
    {Line("empty", "", Chunk(FALSE, FALSE, None)),
     Line("invalid", "", Chunk(FALSE, FALSE, None)),
     Line("text", "data:", TextChunk("Hi")),
     Line("text", "event: ", TextChunk("Hi"))} \cup
    {Line("text", "data: ", c) : c \in Chunks}

\* The lines of the translation check: text chunks only.
TextLines == {Line("text", "data: ", TextChunk("Hi"))}

\* Line 147: data.get('candidates', [{}])[0].get('content', {})
\*               .get('parts', [{}])[0].get('text')
\* raise: the expression raises (data is no dict, or a list is empty);
\* text: the value found, None when a key is missing on the way.
ProbeText(data) ==
    IF ~data.dict THEN [raise |-> TRUE, text |-> None]
    ELSE IF data.candidates = None THEN [raise |-> FALSE, text |-> None]
    ELSE IF data.candidates[1] = <<>> THEN [raise |-> TRUE, text |-> None]
    ELSE LET content == data.candidates[1][1].content
         IN  IF content = None THEN [raise |-> FALSE, text |-> None]
             ELSE IF content[1].parts = None THEN [raise |-> FALSE, text |-> None]
             ELSE IF content[1].parts[1] = <<>> THEN [raise |-> TRUE, text |-> None]
             ELSE [raise |-> FALSE, text |-> content[1].parts[1][1].text]

Delta(content) == [kind |-> "delta", content |-> content]
ErrorEvent(e) == [kind |-> "error", content |-> e]
Done == [kind |-> "done", content |-> "[DONE]"]

\* Lines 142-151: what one upstream line makes the generator do.
\* stop: the exception leaves the loop (line 155); events: what is yielded.
OnLine(line) ==
    IF line.bytes = "empty" THEN [stop |-> FALSE, events |-> <<>>]
    ELSE IF line.bytes = "invalid"
    THEN [stop |-> TRUE, events |-> <<ErrorEvent("UnicodeDecodeError")>>]
    ELSE IF line.prefix # "data: " THEN [stop |-> FALSE, events |-> <<>>]
    ELSE IF ~line.json.valid THEN [stop |-> FALSE, events |-> <<>>]
    ELSE LET probe == ProbeText(line.json)
         IN  IF probe.raise \/ probe.text = None \/ probe.text = Some("")
             THEN [stop |-> FALSE, events |-> <<>>]
             ELSE [stop |-> FALSE, events |-> <<Delta(probe.text[1])>>]

(***************************************************************************)
(* The state machine.                                                      *)
(***************************************************************************)
Init ==
    /\ GOOGLE_API_KEY \in {"", "key"}
    /\ now = 0
    /\ last_request_time = 0
    /\ sampled = None
    /\ req = [endpoint |-> "none"]
    /\ resp = [status |-> 0]
    /\ sent = <<>>
    /\ upstream = None
    /\ pc = "idle"
    /\ lines = <<>>
    /\ out = <<>>

\* time.time() moves on, whatever the handlers are doing.
Tick ==
    /\ now < MaxTime
    /\ now' = now + 1
    /\ UNCHANGED <<GOOGLE_API_KEY, last_request_time, sampled, req, resp, sent,
                   upstream, pc, lines, out>>

\* Line 372, threaded=True: another worker thread, serving a GET or POST
\* request, reaches the store of warm_up (line 40) with the time t it read
\* before, now or earlier.  Of the state followed here it writes
\* last_request_time and nothing else.
concurrent_request ==
    /\ \E t \in 0..now : last_request_time' = warm_up(last_request_time, t)
    /\ UNCHANGED <<GOOGLE_API_KEY, now, sampled, req, resp, sent, upstream, pc,
                   lines, out>>

\* A request is taken: the handler returns at once (OPTIONS), or calls
\* warm_up, where time.time() returns the current time (line 40, right-hand
\* side).  r is what the handler does up to its return or upstream call.
Accept(endpoint, method, data, r) ==
    /\ pc = "idle"
    /\ req' = [endpoint |-> endpoint, method |-> method, data |-> data]
    /\ sampled' = IF r.warm THEN Some(now) ELSE None
    /\ resp' = IF r.warm THEN [status |-> 0] ELSE r.resp
    /\ pc' = IF r.warm THEN "warming" ELSE "responded"
    /\ sent' = <<>>
    /\ upstream' = None
    /\ lines' = <<>>
    /\ out' = <<>>
    /\ UNCHANGED <<GOOGLE_API_KEY, now, last_request_time>>

\* warm_up stores the time it read (line 40, the assignment) and the handler
\* runs on to position next: its return, its upstream call, or its next
\* read of the clock.
Run(r, next) ==
    /\ pc = "warming"
    /\ last_request_time' = warm_up(last_request_time, sampled[1])
    /\ sampled' = None
    /\ resp' = r.resp
    /\ sent' = r.sent
    /\ pc' = next
    /\ UNCHANGED <<GOOGLE_API_KEY, now, req, upstream, lines, out>>

\* requests.post returns or raises: the blocked handler runs to its return.
Return(up, r) ==
    /\ pc = "waiting"
    /\ upstream' = Some(up)
    /\ resp' = r
    /\ pc' = "responded"
    /\ UNCHANGED <<GOOGLE_API_KEY, now, last_request_time, sampled, req, sent,
                   lines, out>>

generate_image ==
    /\ pc = "idle"
    /\ \E method \in Methods, data \in ImageBodies :
        Accept("/api/generate-image", method, data,
               generate_image_call(GOOGLE_API_KEY, method, data))

generate_image_run ==
    /\ pc = "warming"
    /\ req.endpoint = "/api/generate-image"
    /\ LET r == generate_image_call(GOOGLE_API_KEY, req.method, req.data)
       IN  Run(r, IF r.done THEN "responded" ELSE "waiting")

generate_image_return ==
    /\ pc = "waiting"
    /\ req.endpoint = "/api/generate-image"
    /\ \E up \in ImageUpstreams : Return(up, generate_image_reply(req.data, up))

web_search ==
    /\ pc = "idle"
    /\ \E method \in Methods, data \in QueryBodies :
        Accept("/api/web-search", method, data,
               web_search_call(GOOGLE_API_KEY, method, data))

web_search_run ==
    /\ pc = "warming"
    /\ req.endpoint = "/api/web-search"
    /\ LET r == web_search_call(GOOGLE_API_KEY, req.method, req.data)
       IN  Run(r, IF r.done THEN "responded" ELSE "waiting")

web_search_return ==
    /\ pc = "waiting"
    /\ req.endpoint = "/api/web-search"
    /\ \E up \in WebUpstreams : Return(up, web_search_reply(up))

map_search ==
    /\ pc = "idle"
    /\ \E method \in Methods, data \in QueryBodies :
        Accept("/api/map-search", method, data,
               map_search_call(GOOGLE_API_KEY, method, data))

map_search_run ==
    /\ pc = "warming"
    /\ req.endpoint = "/api/map-search"
    /\ LET r == map_search_call(GOOGLE_API_KEY, req.method, req.data)
       IN  Run(r, IF r.done THEN "responded" ELSE "waiting")

map_search_return ==
    /\ pc = "waiting"
    /\ req.endpoint = "/api/map-search"
    /\ \E up \in MapUpstreams : Return(up, map_search_reply(up))

\* Lines 42-52: GET /health.  Line 45 up to the read of the clock in warm_up.
health_check == Accept("/health", "GET", [kind |-> "none"], Entered)

\* Line 45: warm_up stores.
health_check_store ==
    /\ pc = "warming"
    /\ req.endpoint = "/health"
    /\ Run(Entered, "warmed")

\* Line 46: time.time() returns.
health_check_time ==
    /\ pc = "warmed"
    /\ req.endpoint = "/health"
    /\ sampled' = Some(now)
    /\ pc' = "timed"
    /\ UNCHANGED <<GOOGLE_API_KEY, now, last_request_time, req, resp, sent,
                   upstream, lines, out>>

\* Lines 46-52: last_request_time is read, the difference taken and returned.
health_check_return ==
    /\ pc = "timed"
    /\ req.endpoint = "/health"
    /\ resp' = Returned(200, [status |-> "ok", service |-> "lepen-ai-backend",
                              uptime_seconds |-> sampled[1] - last_request_time,
                              ready |-> TRUE])
    /\ sampled' = None
    /\ pc' = "responded"
    /\ UNCHANGED <<GOOGLE_API_KEY, now, last_request_time, req, sent, upstream,
                   lines, out>>

\* Lines 54-58: GET /ping.  Line 57 up to the read of the clock in warm_up.
ping == Accept("/ping", "GET", [kind |-> "none"], Entered)

\* Lines 57-58: warm_up stores and the handler returns.
ping_return ==
    /\ pc = "warming"
    /\ req.endpoint = "/ping"
    /\ Run(Reply(TRUE, 200, [text |-> "pong"]), "responded")

\* Lines 60-64: GET /api/keepalive.  Line 63 up to the read of the clock.
keepalive == Accept("/api/keepalive", "GET", [kind |-> "none"], Entered)

\* Line 63: warm_up stores.
keepalive_store ==
    /\ pc = "warming"
    /\ req.endpoint = "/api/keepalive"
    /\ Run(Entered, "warmed")

\* Line 64: time.strftime reads the clock and the handler returns.
keepalive_return ==
    /\ pc = "warmed"
    /\ req.endpoint = "/api/keepalive"
    /\ resp' = Returned(200, [alive |-> TRUE, timestamp |-> now])
    /\ pc' = "responded"
    /\ UNCHANGED <<GOOGLE_API_KEY, now, last_request_time, sampled, req, sent,
                   upstream, lines, out>>

\* Lines 66-72: POST or OPTIONS /api/chat, over the requests of the relay.
chat ==
    /\ pc = "idle"
    /\ \E method \in Methods, data \in SmallChatBodies :
        Accept("/api/chat", method, data, chat_result(GOOGLE_API_KEY, method, data))

\* The same, over the conversations of the translation check.
chat_translate ==
    /\ pc = "idle"
    /\ \E method \in Methods, data \in ChatBodies :
        Accept("/api/chat", method, data, chat_result(GOOGLE_API_KEY, method, data))

\* Lines 72-170: warm_up stores and the handler runs to its return; the
\* streamed Response it returns leaves the generator waiting to be iterated.
chat_run ==
    /\ pc = "warming"
    /\ req.endpoint = "/api/chat"
    /\ LET r == chat_result(GOOGLE_API_KEY, req.method, req.data)
       IN  Run(r, IF r.resp.status = 200 THEN "awaiting" ELSE "responded")

\* Lines 123-135: the generator builds the payload and enters requests.post.
generate_post ==
    /\ pc = "awaiting"
    /\ sent' = UpstreamPost(sent, ChatPayload(req.data))
    /\ pc' = "posting"
    /\ UNCHANGED <<GOOGLE_API_KEY, now, last_request_time, sampled, req, resp,
                   upstream, lines, out>>

\* Lines 135-139 and 155-156: requests.post raises, or returns a response
\* that is not ok, or one that is.
generate_answer ==
    /\ pc = "posting"
    /\ \E outcome \in {"raise", "error", "ok"} :
        /\ upstream' = Some(outcome)
        /\ CASE outcome = "raise" ->
                   out' = Append(out, ErrorEvent("ConnectionError")) /\ pc' = "closed"
             [] outcome = "error" ->
                   out' = Append(out, ErrorEvent("AI API error")) /\ pc' = "closed"
             [] outcome = "ok" -> out' = out /\ pc' = "streaming"
    /\ UNCHANGED <<GOOGLE_API_KEY, now, last_request_time, sampled, req, resp,
                   sent, lines>>

\* Lines 141-151: the generator takes the next upstream line.
GenerateLine(line) ==
    /\ pc = "streaming"
    /\ Len(lines) < MaxLines
    /\ lines' = Append(lines, line)
    /\ out' = out \o OnLine(line).events
    /\ pc' = IF OnLine(line).stop THEN "closed" ELSE "streaming"
    /\ UNCHANGED <<GOOGLE_API_KEY, now, last_request_time, sampled, req, resp,
                   sent, upstream>>

generate_line == pc = "streaming" /\ \E line \in UpstreamLines : GenerateLine(line)

generate_text_line == pc = "streaming" /\ \E line \in TextLines : GenerateLine(line)

\* Line 153: the upstream stream ends.
generate_done ==
    /\ pc = "streaming"
    /\ out' = Append(out, Done)
    /\ pc' = "closed"
    /\ UNCHANGED <<GOOGLE_API_KEY, now, last_request_time, sampled, req, resp,
                   sent, upstream, lines>>

\* Lines 141 and 155-156: iter_lines raises (the connection breaks).
generate_broken ==
    /\ pc = "streaming"
    /\ out' = Append(out, ErrorEvent("ChunkedEncodingError"))
    /\ pc' = "closed"
    /\ UNCHANGED <<GOOGLE_API_KEY, now, last_request_time, sampled, req, resp,
                   sent, upstream, lines>>

\* The response has been delivered: the request's state is dropped and the
\* next request is followed.
EndRequest ==
    /\ pc \in {"responded", "closed"}
    /\ req' = [endpoint |-> "none"]
    /\ resp' = [status |-> 0]
    /\ sent' = <<>>
    /\ upstream' = None
    /\ pc' = "idle"
    /\ lines' = <<>>
    /\ out' = <<>>
    /\ UNCHANGED <<GOOGLE_API_KEY, now, last_request_time, sampled>>

Next ==
    \/ Tick
    \/ concurrent_request
    \/ health_check
    \/ health_check_store
    \/ health_check_time
    \/ health_check_return
    \/ ping
    \/ ping_return
    \/ keepalive
    \/ keepalive_store
    \/ keepalive_return
    \/ generate_image
    \/ generate_image_run
    \/ generate_image_return
    \/ web_search
    \/ web_search_run
    \/ web_search_return
    \/ map_search
    \/ map_search_run
    \/ map_search_return
    \/ chat
    \/ chat_run
    \/ generate_post
    \/ generate_answer
    \/ generate_line
    \/ generate_done
    \/ generate_broken
    \/ EndRequest
Spec == Init /\ [][Next]_vars

\* The chat route alone, over every conversation of up to MaxMsgs messages.
NextChat ==
    \/ Tick
    \/ concurrent_request
    \/ chat_translate
    \/ chat_run
    \/ generate_post
    \/ generate_answer
    \/ generate_text_line
    \/ generate_done
    \/ generate_broken
    \/ EndRequest
SpecChat == Init /\ [][NextChat]_vars
(***************************************************************************)
(* Properties.                                                             *)
(***************************************************************************)
AiEndpoints == {"/api/chat", "/api/generate-image", "/api/web-search", "/api/map-search"}

ConfigError == [status |-> 500, body |-> [error |-> "GOOGLE_API_KEY not configured"]]

\* A request has just been taken from the idle worker.
RequestStep == pc = "idle" /\ pc' # "idle"

\* C1: once the chat generator has finished, the outbound stream holds the
\* terminal [DONE] event exactly once, as its last event, whether the
\* upstream succeeded, answered a non-success status or raised.
C1_DoneOnceAndLast ==
    pc = "closed" =>
        /\ out # <<>>
        /\ out[Len(out)] = Done
        /\ Cardinality({i \in 1..Len(out) : out[i] = Done}) = 1

\* C2: with an empty API key, every POST to an AI-backed endpoint is answered
\* with the configuration error and no upstream call is issued, whatever the
\* body of the request.
C2_NoKeyNoCall ==
    (GOOGLE_API_KEY = "" /\ req.endpoint \in AiEndpoints /\ req.method = "POST") =>
        /\ sent = <<>>
        /\ pc \in {"warming", "responded"}
        /\ pc = "responded" => resp = ConfigError

C2_Witness ==
    /\ GOOGLE_API_KEY = ""
    /\ req.endpoint = "/api/generate-image"
    /\ req.method = "POST"
    /\ req.data.kind = "object"
    /\ req.data.prompt = Txt("a red circle")
    /\ req.data.imageData = GoodImage
    /\ resp = ConfigError

\* The generated text a line carries, as the claim reads it: the line is
\* text prefixed "data: " whose JSON object holds a non-empty text in the
\* first part of the first candidate.
CarriedText(line) ==
    IF /\ line.bytes = "text"
       /\ line.prefix = "data: "
       /\ line.json.valid
       /\ line.json.dict
       /\ line.json.candidates # None
       /\ line.json.candidates[1] # <<>>
       /\ line.json.candidates[1][1].content # None
       /\ line.json.candidates[1][1].content[1].parts # None
       /\ line.json.candidates[1][1].content[1].parts[1] # <<>>
       /\ line.json.candidates[1][1].content[1].parts[1][1].text \notin {None, Some("")}
    THEN line.json.candidates[1][1].content[1].parts[1][1].text
    ELSE None

\* C3: each upstream line that carries generated text yields exactly one
\* delta event with that text, before the next line is taken; every other
\* line yields no event; and no line stops the stream.
C3_LineToDelta ==
    [][(pc = "streaming" /\ lines' # lines) =>
          LET line == lines'[Len(lines')]
          IN  /\ pc' = "streaming"
              /\ out' = IF CarriedText(line) = None THEN out
                        ELSE Append(out, Delta(CarriedText(line)[1]))]_vars

\* The ways a string reads as data:<mime>;base64,<payload>, with a non-empty
\* <mime> free of ';' and a non-empty <payload>.
DataUriForms(s) ==
    {[mimeType |-> SubSeq(s, 6, i), data |-> SubSeq(s, i + 9, Len(s))] :
        i \in {j \in 6..(Len(s) - 9) :
                  /\ StartsWith(s, DataPrefix)
                  /\ SubSeq(s, j + 1, j + 8) = Base64Sep
                  /\ \A h \in 6..j : s[h] # ";"}}

\* What the claim asks of the parts built from an image string: a string of
\* the form (here with a <payload> free of line feeds) yields a first part
\* that is the inline block of its <mime> and <payload>; and an inline block
\* is attached only for a string that is exactly data:<its mimeType>;base64,
\* <its data>, so that any other string yields none.
ExtractedExactly(s, parts) ==
    /\ \A f \in DataUriForms(s) :
          (\A i \in 1..Len(f.data) : f.data[i] # "\n") =>
              parts[1] = [inlineData |-> f]
    /\ \A i \in 1..Len(parts) :
          "inlineData" \in DOMAIN parts[i] =>
              s = DataPrefix \o parts[i].inlineData.mimeType
                  \o Base64Sep \o parts[i].inlineData.data

\* C4: in the generate-image and the chat translators, an image string of
\* the form data:<mime>;base64,<payload> yields an inline block with exactly
\* that mime type and payload; any other string yields no inline block and
\* no error.
C4_ImageExtraction ==
    /\ ( /\ req.endpoint = "/api/generate-image"
         /\ req.method = "POST"
         /\ pc # "warming"
         /\ GOOGLE_API_KEY # ""
         /\ req.data.kind = "object"
         /\ Truthy(Get(req.data.prompt, Txt("")))
         /\ req.data.imageData.t = "str" ) =>
            /\ sent # <<>>
            /\ ExtractedExactly(req.data.imageData.s, sent[1].contents[1].parts)
    /\ ( /\ req.endpoint = "/api/chat"
         /\ sent # <<>> ) =>
            \A i \in 1..Len(sent[1].contents) :
                req.data.messages[1][i].imageData.t = "str" /\
                Truthy(req.data.messages[1][i].imageData) =>
                    ExtractedExactly(req.data.messages[1][i].imageData.s,
                                     sent[1].contents[i].parts)

\* The strings the handler's pattern accepts, read off the pattern: data:,
\* a non-empty <mime> free of ';', ;base64, and a non-empty <payload> free of
\* line feeds, optionally followed by one final line feed.
AcceptedDataUri(s) ==
    \E f \in DataUriForms(s) :
        LET d == f.data
            body == IF d[Len(d)] = "\n" THEN SubSeq(d, 1, Len(d) - 1) ELSE d
        IN  body # <<>> /\ \A i \in 1..Len(body) : body[i] # "\n"

\* A generate-image request that passed validation, its handler having run
\* to the upstream call or to its return.
ImageRequestBuilt ==
    /\ req.endpoint = "/api/generate-image"
    /\ req.method = "POST"
    /\ pc # "warming"
    /\ GOOGLE_API_KEY # ""
    /\ req.data.kind = "object"
    /\ Truthy(Get(req.data.prompt, Txt("")))

GenerateText == [text |-> "Generate an image: " \o req.data.prompt.s]
EditText == [text |-> "Edit this image: " \o req.data.prompt.s]

\* C5 as stated: without imageData the parts are exactly the one text part
\* "Generate an image: {prompt}"; with imageData they are an inline image
\* part followed by "Edit this image: {prompt}".
C5_EditWheneverImageData ==
    ImageRequestBuilt =>
        IF req.data.imageData \in {Absent, Null}
        THEN sent # <<>> /\ sent[1].contents[1].parts = <<GenerateText>>
        ELSE /\ sent # <<>>
             /\ Len(sent[1].contents[1].parts) = 2
             /\ "inlineData" \in DOMAIN sent[1].contents[1].parts[1]
             /\ sent[1].contents[1].parts[2] = EditText

\* C5, amended: the request is an edit (inline image part, then "Edit this
\* image: {prompt}") exactly when imageData is a string the data-URI
\* pattern accepts; with no imageData, an empty one or a string the pattern
\* rejects it is a generate request (the one text part "Generate an image:
\* {prompt}"); a truthy imageData that is no string issues no upstream call.
\* The two instruction texts never appear in one request.
C5_EditIffDataUri ==
    ImageRequestBuilt =>
        LET img == Get(req.data.imageData, Null)
        IN  IF img.t = "str" /\ AcceptedDataUri(img.s)
            THEN /\ Len(sent) = 1
                 /\ Len(sent[1].contents[1].parts) = 2
                 /\ "inlineData" \in DOMAIN sent[1].contents[1].parts[1]
                 /\ sent[1].contents[1].parts[2] = EditText
            ELSE IF img.t = "num" /\ img.n # 0
            THEN sent = <<>> /\ resp.status = 500
            ELSE /\ Len(sent) = 1
                 /\ sent[1].contents[1].parts = <<GenerateText>>

C5_Witness ==
    /\ ImageRequestBuilt
    /\ req.data.imageData = GoodImage
    /\ Len(sent) = 1
    /\ sent[1].contents[1].parts[2] = EditText

\* A candidate text that is a JSON object inside a fenced block.
FencedObject(t) ==
    \E tag \in {<<>>, <<"json">>}, a \in {<<>>, <<"\n">>}, b \in {<<>>, <<"\n">>} :
        t = <<Fence>> \o tag \o a \o <<ObjToken>> \o b \o <<Fence>>

\* C6: for a successful upstream answer with a candidate, fenced valid JSON
\* yields mapData equal to the embedded object, and a text that does not
\* parse yields status 200 with content equal to the unmodified candidate
\* text.
C6_MapFallbackIsRawText ==
    ( /\ req.endpoint = "/api/map-search"
      /\ upstream # None
      /\ resp.status = 200 ) =>
        LET t == upstream[1].result.candidates[1][1].content[1].parts[1].text[1]
        IN  /\ FencedObject(t) =>
                /\ "mapData" \in DOMAIN resp.body
                /\ resp.body.mapData = JsonLoads(<<ObjToken>>)[1]
            /\ "mapData" \notin DOMAIN resp.body => resp.body = [content |-> t]

PromptRequired == [status |-> 400, body |-> [error |-> "Prompt is required"]]

EmptyPromptRequest ==
    /\ req.endpoint = "/api/generate-image"
    /\ req.method = "POST"
    /\ req.data.kind = "object"
    /\ req.data.prompt \in {Absent, Null, Txt("")}

\* C7 as stated: a generate-image POST whose prompt is missing or empty is
\* answered 400 "Prompt is required" with no upstream call, whatever the
\* configuration.
C7_PromptRequiredAlways ==
    EmptyPromptRequest =>
        /\ sent = <<>>
        /\ pc \in {"warming", "responded"}
        /\ pc = "responded" => resp = PromptRequired

\* C7, amended: when the API key is configured, a generate-image POST with a
\* JSON object body whose prompt is missing, null or empty is answered 400
\* "Prompt is required" with no upstream call, whatever its imageData; with
\* no API key the configuration error (500) is returned instead.
C7_PromptRequiredWhenConfigured ==
    EmptyPromptRequest =>
        /\ sent = <<>>
        /\ pc \in {"warming", "responded"}
        /\ pc = "responded" =>
              resp = IF GOOGLE_API_KEY = "" THEN ConfigError ELSE PromptRequired

C7_Witness ==
    /\ EmptyPromptRequest
    /\ GOOGLE_API_KEY # ""
    /\ req.data.prompt = Txt("")
    /\ req.data.imageData = GoodImage
    /\ resp = PromptRequired

\* C8: the contents sent upstream have the length and order of the inbound
\* messages; turn i has role user iff message i has, else model; its last
\* part is the text of message i; an inline image block, when there is one,
\* comes before the text; the top-level imageData is attached only to the
\* final turn and only when that turn has no imageData of its own.
C8_ChatTranslation ==
    (req.endpoint = "/api/chat" /\ sent # <<>>) =>
        LET msgs == req.data.messages[1]
            contents == sent[1].contents
            top == [inlineData |-> [mimeType |-> <<"m">>, data |-> <<"A", "A">>]]
            own == [inlineData |-> [mimeType |-> <<"m">>, data |-> <<"A">>]]
        IN  /\ Len(contents) = Len(msgs)
            /\ \A i \in 1..Len(msgs) :
                LET parts == contents[i].parts
                IN  /\ contents[i].role = IF msgs[i].role.s = "user" THEN "user"
                                          ELSE "model"
                    /\ Len(parts) \in {1, 2}
                    /\ parts[Len(parts)] = [text |-> msgs[i].content.s]
                    /\ Len(parts) = 2 => parts[1] \in {top, own}
                    /\ (Len(parts) = 2 /\ parts[1] = top) =>
                          /\ i = Len(msgs)
                          /\ msgs[i].imageData = Absent
                          /\ req.data.imageData = TopImage
                    /\ msgs[i].imageData = GoodImage =>
                          Len(parts) = 2 /\ parts[1] = own

C8_Witness ==
    /\ req.endpoint = "/api/chat"
    /\ sent # <<>>
    /\ Len(sent[1].contents) = 2
    /\ req.data.messages[1][1].imageData = Absent
    /\ req.data.messages[1][2].imageData = Absent
    /\ req.data.imageData = TopImage
    /\ Len(sent[1].contents[1].parts) = 1
    /\ Len(sent[1].contents[2].parts) = 2
    /\ sent[1].contents[1].role = "model"
    /\ sent[1].contents[2].role = "user"

\* C9: a request issues at most one upstream call over its lifetime, and
\* none on the OPTIONS, missing-credential and validation-failure paths.
C9_AtMostOneCall ==
    /\ Len(sent) <= 1
    /\ (req.endpoint # "none" /\ req.method = "OPTIONS") => sent = <<>>
    /\ resp = ConfigError => sent = <<>>
    /\ resp.status = 400 => sent = <<>>

\* a chat stream that ended on an upstream error after its single call
C9_Witness ==
    /\ req.endpoint = "/api/chat"
    /\ pc = "closed"
    /\ upstream = Some("error")
    /\ Len(sent) = 1

\* warm_up, once entered, stores the time it read.
WarmUpStores ==
    (pc = "warming" /\ pc' # "warming") => last_request_time' = sampled[1]

\* C10 as stated: every request to every endpoint, OPTIONS included, invokes
\* warm_up, which reads the current time and stores it in last_request_time.
C10_EveryRequestTouches ==
    [][/\ RequestStep => (pc' = "warming" /\ sampled' = Some(now))
       /\ WarmUpStores]_vars

\* C10, amended: every GET and POST request to every endpoint invokes
\* warm_up, which reads the current time and stores it in last_request_time,
\* also when the request is then rejected for a missing credential; an
\* OPTIONS preflight request returns without it and leaves last_request_time
\* unchanged.
C10_GetAndPostTouch ==
    [][/\ RequestStep =>
             IF req'.method = "OPTIONS"
             THEN pc' = "responded" /\ last_request_time' = last_request_time
             ELSE pc' = "warming" /\ sampled' = Some(now)
       /\ WarmUpStores]_vars

\* a request rejected for the missing credential after the clock advanced,
\* the time it read being the one stored
C10_Witness ==
    /\ resp = ConfigError
    /\ now > 0
    /\ last_request_time = now
====
